---- MODULE Spec2Model ----
(***************************************************************************)
(* The "Ask Genie" plugin: the OpenAIAPI completion client and the         *)
(* AskLLMModal dialog that drives it, in its two variants                  *)
(*   src/main.ts          - answer shown in a read-only textarea           *)
(*   src/unnamed/part_000 - answer rendered as markdown, with a copy button*)
(* OpenAIAPI is the same in both files (part_000 is main.ts shifted down by *)
(* one line).                                                              *)
(*                                                                         *)
(* Text.  A JavaScript string is a sequence of one-character strings.  A   *)
(* string literal of the source, and a message text fixed by the engine,   *)
(* stands as ONE element of the sequence (<<"context: ">> \o context);     *)
(* none of these literals holds a quote, a backslash, a newline or a digit, *)
(* so escaping and digit search treat them as inert.                       *)
(***************************************************************************)
EXTENDS Integers, Sequences, FiniteSets, TLC

VARIABLES
    client,                 \* the OpenAIAPI instance: apiKey, model, initialPrompt
    calls,                  \* every activation of query, in the order it was started
    variant,                \* which source file's dialog runs
    modal,                  \* the AskLLMModal's life cycle
    current_file_content,   \* onOpen's captured document text
    outputArea,             \* main.ts: the read-only textarea
    outputContainer,        \* part_000: the div the markdown is rendered into
    copyButtonContainer,    \* part_000: the div around the copy button
    copyButton,             \* part_000: the copy button (its onclick closure)
    notices                 \* every Notice raised, oldest first

vars == <<client, calls, variant, modal, current_file_content, outputArea,
          outputContainer, copyButtonContainer, copyButton, notices>>

uiVars == <<variant, modal, current_file_content, outputArea,
            outputContainer, copyButtonContainer, copyButton, notices>>

(***************************************************************************)
(* Bounds.                                                                 *)
(***************************************************************************)
\* how many query activations one behaviour starts
MaxCalls == 2

(***************************************************************************)
(* JavaScript values, as far as response bodies need them.                 *)
(***************************************************************************)
Undef == [t |-> "undefined"]

Null == [t |-> "null"]

Str(s) == [t |-> "string", v |-> s]

Num(n) == [t |-> "number", n |-> n]

Obj(f) == [t |-> "object", f |-> f]

Arr(e) == [t |-> "array", e |-> e]

EmptyObj == Obj([k \in {} |-> Undef])

\* the abrupt completion of a property read on undefined or null
TypeError(base, prop) == [t |-> "TypeError", base |-> base, prop |-> prop]

Digit(d) == <<"0", "1", "2", "3", "4", "5", "6", "7", "8", "9">>[d + 1]

RECURSIVE Digits(_)
\* Number.prototype.toString of a natural number: its decimal digits
Digits(n) == IF n < 10 THEN <<Digit(n)>> ELSE Digits(n \div 10) \o <<Digit(n % 10)>>

RECURSIVE JSToString(_)
RECURSIVE JoinArray(_)
\* Array.prototype.join(","): null and undefined elements give the empty string
JoinArray(e) ==
    IF e = <<>> THEN <<>>
    ELSE LET h == IF Head(e).t \in {"undefined", "null"} THEN <<>> ELSE JSToString(Head(e))
         IN  IF Len(e) = 1 THEN h ELSE h \o <<",">> \o JoinArray(Tail(e))

\* ToString(v), as a template literal or new Error(v) applies it
JSToString(v) ==
    CASE v.t = "string"    -> v.v
      [] v.t = "number"    -> Digits(v.n)
      [] v.t = "undefined" -> <<"undefined">>
      [] v.t = "null"      -> <<"null">>
      [] v.t = "array"     -> JoinArray(v.e)
      [] OTHER             -> <<"[object Object]">>

\* v[k] / v.k : the property read of the duck-typed accesses.  Of an array
\* or a string only index 0 is ever read.
Get(v, k) ==
    CASE v.t = "TypeError"             -> v
      [] v.t \in {"undefined", "null"} -> TypeError(v.t, k)
      [] v.t = "object"                -> IF k \in DOMAIN v.f THEN v.f[k] ELSE Undef
      [] v.t = "array"                 -> IF k = "0" /\ Len(v.e) >= 1 THEN v.e[1] ELSE Undef
      [] v.t = "string"                -> IF k = "0" /\ Len(v.v) >= 1
                                          THEN Str(<<v.v[1]>>) ELSE Undef
      [] OTHER                         -> Undef

RECURSIVE GetPath(_, _)
\* v.p1.p2...pn, left to right; the first read of undefined or null throws
GetPath(v, path) ==
    IF path = <<>> THEN v ELSE GetPath(Get(v, Head(path)), Tail(path))

\* the message V8 gives the TypeError of such a read
TypeErrorMessage(e) ==
    <<"Cannot read properties of ", e.base, " (reading '", e.prop, "')">>

\* new Error(x).message: "" when x is undefined, ToString(x) otherwise
ErrorMessage(x) == IF x.t = "undefined" THEN <<>> ELSE JSToString(x)

(***************************************************************************)
(* JSON.stringify of the request object.  The body is kept as the object's *)
(* shape with every string leaf serialised to its JSON string literal;     *)
(* JSONParse is what the receiving end reads back.                         *)
(***************************************************************************)
RECURSIVE Escape(_)
Escape(s) ==
    IF s = <<>> THEN <<>>
    ELSE (CASE Head(s) = "\"" -> <<"\\", "\"">>
            [] Head(s) = "\\" -> <<"\\", "\\">>
            [] Head(s) = "\n" -> <<"\\", "n">>
            [] OTHER          -> <<Head(s)>>) \o Escape(Tail(s))

\* JSON.stringify of a string
JSONQuote(s) == <<"\"">> \o Escape(s) \o <<"\"">>

RECURSIVE Unescape(_)
Unescape(s) ==
    IF s = <<>> THEN <<>>
    ELSE IF Head(s) = "\\"
         THEN IF Len(s) = 1 THEN <<"<bad escape>">>
              ELSE (IF s[2] = "n" THEN <<"\n">> ELSE <<s[2]>>) \o Unescape(SubSeq(s, 3, Len(s)))
         ELSE IF Head(s) = "\"" THEN <<"<bad quote>">> \o Unescape(Tail(s))
         ELSE <<Head(s)>> \o Unescape(Tail(s))

\* JSON.parse of a string literal
JSONUnquote(lit) ==
    IF Len(lit) >= 2 /\ lit[1] = "\"" /\ lit[Len(lit)] = "\""
    THEN Unescape(SubSeq(lit, 2, Len(lit) - 1))
    ELSE <<"<not a string literal>">>

JSONStringify(o) ==
    [model    |-> JSONQuote(o.model),
     messages |-> [i \in DOMAIN o.messages |->
                     [role    |-> JSONQuote(o.messages[i].role),
                      content |-> JSONQuote(o.messages[i].content)]]]

JSONParse(b) ==
    [model    |-> JSONUnquote(b.model),
     messages |-> [i \in DOMAIN b.messages |->
                     [role    |-> JSONUnquote(b.messages[i].role),
                      content |-> JSONUnquote(b.messages[i].content)]]]

(***************************************************************************)
(* Inputs.                                                                 *)
(***************************************************************************)
Configurations ==
    { [apiKey |-> <<"s", "k", "-", "1">>, model |-> <<"g", "p", "t">>,
       initialPrompt |-> <<"b", "e", " ", "\"", "b", "r", "i", "e", "f", "\"">>],
      [apiKey |-> <<>>, model |-> <<"o", "1">>, initialPrompt |-> <<>>] }

Contexts == { <<>>, <<"a", "\n", "\"", "b", "\"">> }

Questions == { <<>>, <<"\\", "?">> }

\* what getActiveViewOfType(MarkdownView)?.data can be
Documents == { Undef, Str(<<>>), Str(<<"#", " ", "n", "\n", "x">>) }

Prompts == { <<>>, <<"w", "h", "y", "?">> }

\* a body response.json() rejects
NotJSON == [t |-> "unparseable"]

Answer == Str(<<"4", "2">>)

SuccessStatuses == { 200 }

ErrorStatuses == { 401, 500 }

\* bodies of a response the provider reports an error with; {} stands for
\* every object without the member that is read
ErrorBodies ==
    { NotJSON,
      EmptyObj,
      Obj([error |-> EmptyObj]),
      Obj([error |-> Obj([message |-> Str(<<"invalid_api_key">>)])]) }

SuccessBodies ==
    { NotJSON,
      EmptyObj,
      Obj([choices |-> Arr(<<>>)]),
      Obj([choices |-> Arr(<<EmptyObj>>)]),
      Obj([choices |-> Arr(<<Obj([message |-> EmptyObj])>>)]),
      Obj([choices |-> Arr(<<Obj([message |-> Obj([content |-> Answer])])>>)]) }

\* fetch rejects: no response at all
FetchRejects == [t |-> "reject", status |-> 0, body |-> NotJSON]

Http(status, body) == [t |-> "http", status |-> status, body |-> body]

Responses ==
    {FetchRejects}
        \cup {Http(s, b) : s \in ErrorStatuses, b \in ErrorBodies}
        \cup {Http(s, b) : s \in SuccessStatuses, b \in SuccessBodies}

\* the responses the dialog is driven with: one of each outcome
DialogResponses ==
    { FetchRejects,
      Http(500, NotJSON),
      Http(401, Obj([error |-> Obj([message |-> Str(<<"invalid_api_key">>)])])),
      Http(200, Obj([choices |-> Arr(<<Obj([message |-> EmptyObj])>>)])),
      Http(200, Obj([choices |-> Arr(<<Obj([message |-> Obj([content |-> Answer])])>>)])) }

NoResponse == [t |-> "none", status |-> 0, body |-> NotJSON]

(***************************************************************************)
(* OpenAIAPI.query                                                         *)
(***************************************************************************)
Pending == [kind |-> "pending", message |-> <<>>, value |-> Undef]

Rejected(message) == [kind |-> "rejected", message |-> message, value |-> Undef]

Resolved(value) == [kind |-> "resolved", message |-> <<>>, value |-> value]

\* the request of a query whose context message is left out when the context is empty
BuildRequestSkippingEmpty(cl, context, question) ==
    [url     |-> "https://api.openai.com/v1/chat/completions",
     method  |-> "POST",
     headers |-> [ContentType   |-> "application/json",
                  Authorization |-> <<"Bearer ">> \o cl.apiKey],
     body    |-> JSONStringify(
        [model    |-> cl.model,
         messages |-> <<[role |-> <<"system">>, content |-> cl.initialPrompt]>>
                      \o (IF context = <<>> THEN <<>>
                          ELSE <<[role |-> <<"system">>, content |-> <<"context: ">> \o context]>>)
                      \o <<[role |-> <<"user">>, content |-> question]>>])]

\* the argument of fetch
BuildRequest(cl, context, question) ==
    [url     |-> "https://api.openai.com/v1/chat/completions",
     method  |-> "POST",
     headers |-> [ContentType   |-> "application/json",
                  Authorization |-> <<"Bearer ">> \o cl.apiKey],
     body    |-> JSONStringify(
        [model    |-> cl.model,
         messages |-> <<[role |-> <<"system">>, content |-> cl.initialPrompt],
                        [role |-> <<"system">>, content |-> <<"context: ">> \o context],
                        [role |-> <<"user">>,   content |-> question]>>])]

\* response.ok
Ok(status) == status >= 200 /\ status <= 299

\* the message engines give fetch's TypeError
FetchErrorMessage == <<"Failed to fetch">>

\* the message of the SyntaxError response.json() rejects with
SyntaxErrorMessage == <<"Unexpected token">>

\* a query that reports every non-success status by its code alone
SettleByStatusAlone(response) ==
    IF response.t = "reject" THEN Rejected(FetchErrorMessage)
    ELSE IF ~Ok(response.status)
    THEN Rejected(<<"HTTP error! status: ">> \o Digits(response.status))
    ELSE IF response.body = NotJSON THEN Rejected(SyntaxErrorMessage)
    ELSE LET content == GetPath(response.body, <<"choices", "0", "message", "content">>)
         IN  IF content.t = "TypeError" THEN Rejected(TypeErrorMessage(content))
             ELSE Resolved(content)

\* a query whose generic message leaves the status code out
SettleWithoutStatus(response) ==
    IF response.t = "reject" THEN Rejected(FetchErrorMessage)
    ELSE IF ~Ok(response.status)
    THEN IF response.body = NotJSON
         THEN Rejected(<<"HTTP error!">>)
         ELSE LET message == GetPath(response.body, <<"error", "message">>)
              IN  IF message.t = "TypeError" THEN Rejected(TypeErrorMessage(message))
                  ELSE Rejected(ErrorMessage(message))
    ELSE IF response.body = NotJSON THEN Rejected(SyntaxErrorMessage)
    ELSE LET content == GetPath(response.body, <<"choices", "0", "message", "content">>)
         IN  IF content.t = "TypeError" THEN Rejected(TypeErrorMessage(content))
             ELSE Resolved(content)

\* query from the settling of fetch to the settling of its own promise
Settle(response) ==
    IF response.t = "reject" THEN Rejected(FetchErrorMessage)
    ELSE IF ~Ok(response.status)
    THEN IF response.body = NotJSON
         THEN Rejected(<<"HTTP error! status: ">> \o Digits(response.status))
         ELSE LET message == GetPath(response.body, <<"error", "message">>)
              IN  IF message.t = "TypeError" THEN Rejected(TypeErrorMessage(message))
                  ELSE Rejected(ErrorMessage(message))
    ELSE IF response.body = NotJSON THEN Rejected(SyntaxErrorMessage)
    ELSE LET content == GetPath(response.body, <<"choices", "0", "message", "content">>)
         IN  IF content.t = "TypeError" THEN Rejected(TypeErrorMessage(content))
             ELSE Resolved(content)

\* query up to its first await: the request is built and fetch is called.
\* handler, sync: the submitPrompt activation awaiting this query, if any.
query(cl, context, question) ==
    [context  |-> context,
     question |-> question,
     request  |-> BuildRequest(cl, context, question),
     fetches  |-> 1,
     pc       |-> "fetch",
     response |-> NoResponse,
     outcome  |-> Pending,
     handler  |-> "none",
     sync     |-> FALSE]

\* query after its await of fetch (and of response.json(), which touches
\* nothing but this activation's locals)
queryAfterFetch(call, response) ==
    [call EXCEPT !.pc = "done", !.response = response, !.outcome = Settle(response)]

\* a client with one shared abort controller: a new query aborts those in flight
startQueryAbortingOthers(cs, cl, context, question) ==
    Append([c \in DOMAIN cs |->
              IF cs[c].pc = "fetch"
              THEN [cs[c] EXCEPT !.pc = "done", !.response = FetchRejects,
                                 !.outcome = Rejected(<<"AbortError">>)]
              ELSE cs[c]],
           query(cl, context, question))

\* calling the async method: a new, independent activation
startQuery(cs, cl, context, question) == Append(cs, query(cl, context, question))

(***************************************************************************)
(* The client on its own: query called directly, fetch settled by the      *)
(* transport in any order.                                                 *)
(***************************************************************************)
NoDialog ==
    /\ variant = "main.ts"
    /\ modal = "none"
    /\ current_file_content = <<>>
    /\ outputArea = [visibility |-> "hidden", value |-> <<>>]
    /\ outputContainer = [display |-> "none", innerHTML |-> <<>>]
    /\ copyButtonContainer = [display |-> "none"]
    /\ copyButton = [onclick |-> Null]
    /\ notices = <<>>

\* new OpenAIAPI(apiKey, model, initialPrompt)
InitClient ==
    /\ client \in Configurations
    /\ calls = <<>>
    /\ NoDialog

\* a client that keeps the conversation: each question is added to its prompt
QueryCallRemembering(context, question) ==
    /\ Len(calls) < MaxCalls
    /\ calls' = startQuery(calls, client, context, question)
    /\ client' = [client EXCEPT !.initialPrompt = @ \o question]
    /\ UNCHANGED uiVars

QueryCall(context, question) ==
    /\ Len(calls) < MaxCalls
    /\ calls' = startQuery(calls, client, context, question)
    /\ UNCHANGED <<client, uiVars>>

QueryReturn(c, response) ==
    /\ c \in DOMAIN calls
    /\ calls[c].pc = "fetch"
    /\ calls' = [calls EXCEPT ![c] = queryAfterFetch(@, response)]
    /\ UNCHANGED <<client, uiVars>>

NextClient ==
    \/ \E context \in Contexts, question \in Questions : QueryCall(context, question)
    \/ \E c \in 1..MaxCalls, response \in Responses : QueryReturn(c, response)

SpecClient == InitClient /\ [][NextClient]_vars

\* a deterministic transport answers equal requests equally
Deterministic(c, response) ==
    \A d \in DOMAIN calls :
        (calls[d].pc = "done" /\ calls[d].request = calls[c].request)
            => response = calls[d].response

QueryReturnDet(c, response) ==
    /\ c \in DOMAIN calls
    /\ Deterministic(c, response)
    /\ QueryReturn(c, response)

NextDet ==
    \/ \E context \in Contexts, question \in Questions : QueryCall(context, question)
    \/ \E c \in 1..MaxCalls, response \in Responses : QueryReturnDet(c, response)

SpecDet == InitClient /\ [][NextDet]_vars

(***************************************************************************)
(* AskLLMModal                                                             *)
(***************************************************************************)
ProcessingText == <<"Processing your request...">>

\* '<em>Processing your request...</em>'
ProcessingNode == [tag |-> "em", source |-> Str(ProcessingText)]

\* what MarkdownRenderer.render appends to its container for a markdown source
Rendered(v) == [tag |-> "markdown", source |-> v]

\* the DOMString a textarea's value setter stores ([LegacyNullToEmptyString])
DOMString(v) == IF v.t = "null" THEN <<>> ELSE JSToString(v)

\* new Notice(`Error: ${error.message}`); by: the activation that raised it
ErrorNotice(c, message) == [message |-> <<"Error: ">> \o message, by |-> c]

\* the message of whatever MarkdownRenderer.render rejects with
RenderErrorMessage == <<"render failed">>

\* new AskLLMModal(app, plugin): the client is built from the settings
Init ==
    /\ client \in Configurations
    /\ calls = <<>>
    /\ variant \in {"main.ts", "part_000"}
    /\ modal = "constructed"
    /\ current_file_content = <<>>
    /\ outputArea = [visibility |-> "hidden", value |-> <<>>]
    /\ outputContainer = [display |-> "none", innerHTML |-> <<>>]
    /\ copyButtonContainer = [display |-> "none"]
    /\ copyButton = [onclick |-> Null]
    /\ notices = <<>>

\* onOpen: close at once when there is no text, else build the dialog
onOpen(data) ==
    /\ modal = "constructed"
    /\ IF data.t = "undefined" \/ data.v = <<>>
       THEN /\ modal' = "closed"
            /\ UNCHANGED <<current_file_content, outputArea, outputContainer,
                           copyButtonContainer, copyButton>>
       ELSE /\ modal' = "open"
            /\ current_file_content' = data.v
            /\ outputArea' = [visibility |-> "hidden", value |-> <<>>]
            /\ outputContainer' = [display |-> "none", innerHTML |-> <<>>]
            /\ copyButtonContainer' = [display |-> "none"]
            /\ copyButton' = [onclick |-> Null]
    /\ UNCHANGED <<client, calls, variant, notices>>

\* main.ts submitPrompt up to its await
submitPrompt(prompt) ==
    /\ variant = "main.ts"
    /\ modal = "open"
    /\ Len(calls) < MaxCalls
    /\ outputArea' = [visibility |-> "visible", value |-> ProcessingText]
    /\ calls' = [startQuery(calls, client, current_file_content, prompt)
                    EXCEPT ![Len(calls) + 1].handler = "query"]
    /\ UNCHANGED <<client, variant, modal, current_file_content, outputContainer,
                   copyButtonContainer, copyButton, notices>>

\* a handler whose catch raises the notice and leaves the area as it is
submitPromptResumeLeavingIndicator(c, response) ==
    /\ variant = "main.ts"
    /\ c \in DOMAIN calls
    /\ calls[c].pc = "fetch"
    /\ LET call == queryAfterFetch(calls[c], response)
       IN  IF call.outcome.kind = "resolved"
           THEN /\ outputArea' = [outputArea EXCEPT !.value = DOMString(call.outcome.value)]
                /\ calls' = [calls EXCEPT ![c] = [call EXCEPT !.handler = "returned"]]
                /\ UNCHANGED notices
           ELSE /\ notices' = Append(notices, ErrorNotice(c, call.outcome.message))
                /\ UNCHANGED outputArea
                /\ calls' = [calls EXCEPT ![c] = [call EXCEPT !.handler = "caught"]]
    /\ UNCHANGED <<client, variant, modal, current_file_content, outputContainer,
                   copyButtonContainer, copyButton>>

\* main.ts submitPrompt from the settling of its query to its end
submitPromptResume(c, response) ==
    /\ variant = "main.ts"
    /\ c \in DOMAIN calls
    /\ calls[c].pc = "fetch"
    /\ LET call == queryAfterFetch(calls[c], response)
       IN  IF call.outcome.kind = "resolved"
           THEN /\ outputArea' = [outputArea EXCEPT !.value = DOMString(call.outcome.value)]
                /\ calls' = [calls EXCEPT ![c] = [call EXCEPT !.handler = "returned"]]
                /\ UNCHANGED notices
           ELSE /\ notices' = Append(notices, ErrorNotice(c, call.outcome.message))
                /\ outputArea' = [outputArea EXCEPT !.visibility = "hidden"]
                /\ calls' = [calls EXCEPT ![c] = [call EXCEPT !.handler = "caught"]]
    /\ UNCHANGED <<client, variant, modal, current_file_content, outputContainer,
                   copyButtonContainer, copyButton>>

\* part_000 submitPrompt up to its first await
submitPromptMd(prompt) ==
    /\ variant = "part_000"
    /\ modal = "open"
    /\ Len(calls) < MaxCalls
    /\ outputContainer' = [display |-> "block", innerHTML |-> <<ProcessingNode>>]
    /\ copyButtonContainer' = [display |-> "none"]
    /\ calls' = [startQuery(calls, client, current_file_content, prompt)
                    EXCEPT ![Len(calls) + 1].handler = "query"]
    /\ UNCHANGED <<client, variant, modal, current_file_content, outputArea,
                   copyButton, notices>>

\* part_000 submitPrompt from the settling of its query to its second await
\* (or, on a failure, to its end).  sync: whether MarkdownRenderer.render
\* fills the container before it first suspends, or only when it is done.
submitPromptMdResume(c, response, sync) ==
    /\ variant = "part_000"
    /\ c \in DOMAIN calls
    /\ calls[c].pc = "fetch"
    /\ LET call == queryAfterFetch(calls[c], response)
       IN  IF call.outcome.kind = "resolved"
           THEN /\ outputContainer' =
                       [outputContainer EXCEPT !.innerHTML =
                           IF sync THEN <<Rendered(call.outcome.value)>> ELSE <<>>]
                /\ calls' = [calls EXCEPT ![c] =
                                [call EXCEPT !.handler = "render", !.sync = sync]]
                /\ UNCHANGED <<copyButtonContainer, notices>>
           ELSE /\ notices' = Append(notices, ErrorNotice(c, call.outcome.message))
                /\ outputContainer' = [outputContainer EXCEPT !.display = "none"]
                /\ copyButtonContainer' = [display |-> "none"]
                /\ calls' = [calls EXCEPT ![c] = [call EXCEPT !.handler = "caught"]]
    /\ UNCHANGED <<client, variant, modal, current_file_content, outputArea, copyButton>>

\* part_000 submitPrompt after MarkdownRenderer.render has resolved
renderResolves(c) ==
    /\ variant = "part_000"
    /\ c \in DOMAIN calls
    /\ calls[c].handler = "render"
    /\ outputContainer' =
           [outputContainer EXCEPT !.innerHTML =
               IF calls[c].sync THEN @ ELSE Append(@, Rendered(calls[c].outcome.value))]
    /\ copyButtonContainer' = [display |-> "block"]
    /\ copyButton' = [onclick |-> [t |-> "closure", response |-> calls[c].outcome.value]]
    /\ calls' = [calls EXCEPT ![c].handler = "returned"]
    /\ UNCHANGED <<client, variant, modal, current_file_content, outputArea, notices>>

\* part_000 submitPrompt after MarkdownRenderer.render has rejected, which
\* it may when it is handed something that is no string
renderRejects(c) ==
    /\ variant = "part_000"
    /\ c \in DOMAIN calls
    /\ calls[c].handler = "render"
    /\ calls[c].outcome.value.t # "string"
    /\ notices' = Append(notices, ErrorNotice(c, RenderErrorMessage))
    /\ outputContainer' = [outputContainer EXCEPT !.display = "none"]
    /\ copyButtonContainer' = [display |-> "none"]
    /\ calls' = [calls EXCEPT ![c].handler = "caught"]
    /\ UNCHANGED <<client, variant, modal, current_file_content, outputArea, copyButton>>

Next ==
    \/ \E data \in Documents : onOpen(data)
    \/ \E prompt \in Prompts : submitPrompt(prompt)
    \/ \E c \in 1..MaxCalls, response \in DialogResponses : submitPromptResume(c, response)
    \/ \E prompt \in Prompts : submitPromptMd(prompt)
    \/ \E c \in 1..MaxCalls, response \in DialogResponses, sync \in BOOLEAN :
           submitPromptMdResume(c, response, sync)
    \/ \E c \in 1..MaxCalls : renderResolves(c)
    \/ \E c \in 1..MaxCalls : renderRejects(c)

Spec == Init /\ [][Next]_vars

(***************************************************************************)
(* Properties.                                                             *)
(***************************************************************************)
Done(c) == calls[c].pc = "done"

Failed(c) == calls[c].outcome.kind = "rejected"

HasMember(v, k) == v.t = "object" /\ k \in DOMAIN v.f

\* the body is {"error": {"message": <string>, ...}, ...}
HasProviderMessage(body) ==
    /\ HasMember(body, "error")
    /\ HasMember(body.f["error"], "message")
    /\ body.f["error"].f["message"].t = "string"

\* the body is {"choices": [{"message": {"content": <string>}}, ...]}
HasAnswer(body) ==
    /\ HasMember(body, "choices")
    /\ body.f["choices"].t = "array"
    /\ Len(body.f["choices"].e) >= 1
    /\ HasMember(body.f["choices"].e[1], "message")
    /\ HasMember(body.f["choices"].e[1].f["message"], "content")
    /\ body.f["choices"].e[1].f["message"].f["content"].t = "string"

ErrorResponse(c) == Done(c) /\ calls[c].response.t = "http" /\ ~Ok(calls[c].response.status)

SuccessResponse(c) == Done(c) /\ calls[c].response.t = "http" /\ Ok(calls[c].response.status)

Contains(s, sub) ==
    \E i \in 1..(Len(s) + 1) :
        i + Len(sub) - 1 <= Len(s) /\ SubSeq(s, i, i + Len(sub) - 1) = sub

\* C1: the body of every request query sends, read back as JSON, has the
\* client's model and exactly the three messages (system, initialPrompt),
\* (system, "context: " + context), (user, question), the context and the
\* question unchanged, empty or not.
C1_RequestShape ==
    \A c \in DOMAIN calls :
        JSONParse(calls[c].request.body) =
            [model    |-> client.model,
             messages |-> <<[role |-> <<"system">>, content |-> client.initialPrompt],
                            [role |-> <<"system">>,
                             content |-> <<"context: ">> \o calls[c].context],
                            [role |-> <<"user">>, content |-> calls[c].question]>>]

C1_Witness ==
    \E c, d \in DOMAIN calls :
        /\ calls[c].context = <<>> /\ calls[c].question = <<>>
        /\ calls[d].context # <<>> /\ calls[d].question # <<>>

\* C2 as stated: on every non-success response whose body parses as JSON,
\* query fails with the body's error.message text.
C2_AsStated ==
    \A c \in DOMAIN calls :
        (ErrorResponse(c) /\ calls[c].response.body # NotJSON)
            => /\ Failed(c)
               /\ HasProviderMessage(calls[c].response.body)
               /\ calls[c].outcome.message =
                      calls[c].response.body.f["error"].f["message"].v

\* C2 as amended: on every non-success response whose body parses as JSON,
\* query fails; when the body holds an object "error" with a string
\* "message", the failure's message is that text.
C2_ProviderMessage ==
    \A c \in DOMAIN calls :
        (ErrorResponse(c) /\ calls[c].response.body # NotJSON)
            => /\ Failed(c)
               /\ HasProviderMessage(calls[c].response.body)
                    => calls[c].outcome.message =
                           calls[c].response.body.f["error"].f["message"].v

C2_Witness ==
    \E c \in DOMAIN calls :
        /\ ErrorResponse(c)
        /\ HasProviderMessage(calls[c].response.body)
        /\ calls[c].outcome.message = <<"invalid_api_key">>

\* C3: on every success response whose body lacks choices, the first
\* choice's message or the message's content, query ends in a failure and
\* returns nothing as the answer.
C3_MalformedFails ==
    \A c \in DOMAIN calls :
        (SuccessResponse(c) /\ calls[c].response.body # NotJSON
                            /\ ~HasAnswer(calls[c].response.body))
            => Failed(c)

StatusText(status) ==
    CASE status = 401 -> <<"4", "0", "1">>
      [] status = 500 -> <<"5", "0", "0">>

\* C4: on every non-success response whose body does not parse as JSON,
\* query fails with a message that holds the status code in decimal.
C4_OpaqueStatus ==
    \A c \in DOMAIN calls :
        (ErrorResponse(c) /\ calls[c].response.body = NotJSON)
            => /\ Failed(c)
               /\ Contains(calls[c].outcome.message, StatusText(calls[c].response.status))

C4_Witness ==
    \E c \in DOMAIN calls :
        /\ ErrorResponse(c)
        /\ calls[c].response.body = NotJSON
        /\ calls[c].response.status = 500
        /\ Failed(c)

\* a transport failure, a provider error (opaque or not) or a malformed
\* success body
NoAnswerIn(response) ==
    \/ response.t = "reject"
    \/ response.t = "http" /\ ~Ok(response.status)
    \/ response.t = "http" /\ Ok(response.status) /\ ~HasAnswer(response.body)

\* every query activation has called fetch exactly once, settled or not
OneRequestPerCall == \A c \in DOMAIN calls : calls[c].fetches = 1

\* C5: every query call issues exactly one request over its lifetime, and a
\* transport failure, a provider error, an opaque provider error or a
\* malformed success body each end it as a failure.
C5_OneRequestAndFailure ==
    \A c \in DOMAIN calls :
        /\ calls[c].fetches = 1
        /\ (Done(c) /\ NoAnswerIn(calls[c].response)) => Failed(c)

\* C6: overlapping calls are independent: each has issued its own single
\* request, equal responses give equal outcomes whatever else is in flight
\* or has completed, and neither the start nor the completion of one call
\* changes anything of another.
C6_Independent ==
    /\ [](\A c, d \in DOMAIN calls :
            /\ calls[c].fetches = 1
            /\ (Done(c) /\ Done(d) /\ calls[c].response = calls[d].response)
                  => calls[c].outcome = calls[d].outcome)
    /\ [][\A c \in DOMAIN calls :
            /\ c \in DOMAIN calls'
            /\ (Len(calls') > Len(calls) \/ calls'[c].pc = calls[c].pc)
                  => (calls'[c].pc = calls[c].pc /\ calls'[c].outcome = calls[c].outcome
                      /\ calls'[c].request = calls[c].request
                      /\ calls'[c].fetches = calls[c].fetches)
            /\ (\E d \in DOMAIN calls : d # c /\ calls'[d].pc # calls[d].pc)
                  => calls'[c] = calls[c]]_vars

\* the later call has completed while the earlier is still in flight
C6_Witness ==
    /\ Len(calls) = 2
    /\ calls[1].pc = "fetch"
    /\ Done(2)

\* C7: query keeps no hidden state: no step changes the client's apiKey,
\* model or initialPrompt, and against a deterministic transport calls with
\* equal (context, question) send equal requests and end in equal outcomes,
\* however many calls, failed or not, came before.
C7_NoHiddenState ==
    /\ [](\A c, d \in DOMAIN calls :
            (calls[c].context = calls[d].context /\ calls[c].question = calls[d].question)
                => /\ calls[c].request = calls[d].request
                   /\ (Done(c) /\ Done(d)) => calls[c].outcome = calls[d].outcome)
    /\ [][client' = client]_vars

C7_Witness ==
    \E c, d \in DOMAIN calls :
        /\ c < d
        /\ Done(c) /\ Done(d)
        /\ calls[c].context = calls[d].context /\ calls[c].question = calls[d].question
        /\ Failed(c)

\* what the user sees of the output: hidden, or shown
OutputHidden ==
    IF variant = "main.ts" THEN outputArea.visibility = "hidden"
    ELSE outputContainer.display = "none"

NoticesBy(c) == {i \in DOMAIN notices : notices[i].by = c}

\* C8: a submit handler whose query fails raises exactly one notice, which
\* carries the failure's message, and at its end the output area is hidden.
C8_FailureNotice ==
    /\ [](\A c \in DOMAIN calls :
            (calls[c].handler # "none" /\ Failed(c))
                => /\ Cardinality(NoticesBy(c)) = 1
                   /\ \A i \in NoticesBy(c) :
                          notices[i].message = <<"Error: ">> \o calls[c].outcome.message)
    /\ [][\A c \in DOMAIN calls' :
            (calls'[c].handler = "caught" /\ calls'[c].outcome.kind = "rejected"
                /\ (c \in DOMAIN calls => calls[c].handler # "caught"))
                => /\ OutputHidden'
                   /\ Len(notices') = Len(notices) + 1]_vars

C8_Witness ==
    \E c, d \in DOMAIN calls :
        /\ c # d
        /\ calls[c].handler = "caught" /\ Failed(c)
        /\ calls[d].handler = "query"
        /\ Len(notices) = 1

\* the output, textarea or container, is visible and shows exactly the answer v
ShowsAnswer(area, container, v) ==
    IF variant = "main.ts"
    THEN area.visibility = "visible" /\ area.value = v.v
    ELSE container.display = "block" /\ container.innerHTML = <<Rendered(v)>>

\* C9: whenever a submit handler ends after its query returned an answer,
\* the output is visible and shows that answer, whatever other submits did.
C9_AnswerShown ==
    [][\A c \in DOMAIN calls :
          (calls[c].handler # "returned" /\ calls'[c].handler = "returned"
              /\ calls'[c].outcome.value.t = "string")
              => ShowsAnswer(outputArea', outputContainer', calls'[c].outcome.value)]_vars

\* C10: in the markdown variant, whenever the copy button is displayed (and
\* what it copies is an answer text) the output container is displayed and
\* holds the rendering of the very text the button copies.
C10_CopyMatchesOutput ==
    (/\ variant = "part_000"
     /\ copyButtonContainer.display = "block"
     /\ copyButton.onclick.t = "closure"
     /\ copyButton.onclick.response.t = "string")
        => /\ outputContainer.display = "block"
           /\ outputContainer.innerHTML = <<Rendered(copyButton.onclick.response)>>

====
